---- MODULE Spec2Model ----
(***************************************************************************)
(* Orientation-aware addressing of the ST7789 panel of the T-Display-S3,   *)
(* as implemented in main/main.c: set_display_orientation, set_draw_area,  *)
(* clear_screen and lvgl_flush_cb, driven by app_main.                     *)
(*                                                                         *)
(* A handler is one action.  What a handler does to the outside world (the *)
(* esp_lcd transport, the heap, LVGL) is recorded, in program order, in    *)
(* call.events; the outcome of every external call that can fail is an     *)
(* input of the action (env).                                              *)
(***************************************************************************)
EXTENDS Integers, Sequences, FiniteSets, TLC

VARIABLES pc, current_orientation, lvgl_disp, disp_drv, panel, call, hist, tasks

vars == <<pc, current_orientation, lvgl_disp, disp_drv, panel, call, hist, tasks>>

---------------------------------------------------------------------------
(* Program constants *)

LCD_H_RES == 170
LCD_V_RES == 320
LCD_X_OFFSET == 0
LCD_Y_OFFSET == 0

DISPLAY_ORIENTATION_0 == 0
DISPLAY_ORIENTATION_90 == 1
DISPLAY_ORIENTATION_180 == 2
DISPLAY_ORIENTATION_270 == 3

\* opcodes: 0x36, 0x2A, 0x2B, 0x2C
MADCTL == 54
CASET == 42
RASET == 43
RAMWR == 44

ESP_OK == "ESP_OK"
\* the error an esp_lcd call reports when the transport refuses it
ESP_FAIL == "ESP_FAIL"
ESP_ERR_INVALID_ARG == "ESP_ERR_INVALID_ARG"
ESP_ERR_INVALID_STATE == "ESP_ERR_INVALID_STATE"
ESP_ERR_NO_MEM == "ESP_ERR_NO_MEM"

---------------------------------------------------------------------------
(* Bounds of the model *)

\* how far beyond the edges of the surface a requested coordinate may lie
Over == 1
\* a coordinate well inside every surface
Inner == 5
\* the turns of the loop of lvgl_tick_task that are followed
MaxTicks == 2

---------------------------------------------------------------------------
(* Helpers *)

MIN(a, b) == IF a < b THEN a ELSE b
MAX(a, b) == IF a > b THEN a ELSE b

\* conversion of an int to uint16_t
U16(v) == v % 65536

\* mutant: the low byte first
HiLo_low_first(v) == << v % 256, (v \div 256) % 256 >>

\* (v >> 8) & 0xFF, v & 0xFF
HiLo(v) == << (v \div 256) % 256, v % 256 >>

\* one entry of the trace of a handler
Ev(op, a, ok) == [op |-> op, a |-> a, ok |-> ok]

Valid == {DISPLAY_ORIENTATION_0, DISPLAY_ORIENTATION_90,
          DISPLAY_ORIENTATION_180, DISPLAY_ORIENTATION_270}

\* the display_orientation_t values a caller may pass: the four enumerators
\* and one value on either side of them
Orientations == (DISPLAY_ORIENTATION_0 - 1) .. (DISPLAY_ORIENTATION_270 + 1)

\* Outcomes of the external calls of one handler invocation:
\*   tx      which esp_lcd_panel_io_tx_param call of the invocation fails
\*           (0: none)
\*   gap     esp_lcd_panel_set_gap succeeds
\*   malloc  heap_caps_malloc returns a buffer
\*   draw    esp_lcd_panel_draw_bitmap succeeds
Env(tx, gap, malloc, draw) == [tx |-> tx, gap |-> gap, malloc |-> malloc, draw |-> draw]

AllOk == Env(0, TRUE, TRUE, TRUE)

\* set_draw_area: one of its three commands fails, or none
DrawEnvs == {Env(t, TRUE, TRUE, TRUE) : t \in 0..3}

\* lvgl_flush_cb: as set_draw_area, or the bitmap fails
FlushEnvs == DrawEnvs \cup {Env(0, TRUE, TRUE, FALSE)}

\* clear_screen: as lvgl_flush_cb, or the allocation fails
ClearEnvs == FlushEnvs \cup {Env(0, TRUE, FALSE, TRUE)}

\* set_display_orientation: MADCTL is its first tx_param call, the three of
\* the clear's set_draw_area follow
OrientEnvs ==
    {Env(1, TRUE, TRUE, TRUE), Env(0, FALSE, TRUE, TRUE), Env(0, TRUE, FALSE, TRUE),
     Env(0, TRUE, TRUE, FALSE), AllOk} \cup {Env(t, TRUE, TRUE, TRUE) : t \in 2..4}

Colors == {0, 65535}

---------------------------------------------------------------------------
(* set_display_orientation, the switch: MADCTL value, logical resolution   *)
(* and gap of an orientation; valid is FALSE in the default branch.        *)

\* mutant: the switch without its default branch, a value beyond the last
\* enumerator taken as 270 degrees
orientation_params_no_default(orientation) ==
    IF orientation = DISPLAY_ORIENTATION_0
    THEN [valid |-> TRUE, madctl |-> 8, hor_res |-> LCD_H_RES, ver_res |-> LCD_V_RES,
          x_gap |-> 35, y_gap |-> 0]
    ELSE IF orientation = DISPLAY_ORIENTATION_90
    THEN [valid |-> TRUE, madctl |-> 104, hor_res |-> LCD_V_RES, ver_res |-> LCD_H_RES,
          x_gap |-> 0, y_gap |-> 35]
    ELSE IF orientation = DISPLAY_ORIENTATION_180
    THEN [valid |-> TRUE, madctl |-> 200, hor_res |-> LCD_H_RES, ver_res |-> LCD_V_RES,
          x_gap |-> 35, y_gap |-> 0]
    ELSE [valid |-> TRUE, madctl |-> 168, hor_res |-> LCD_V_RES, ver_res |-> LCD_H_RES,
          x_gap |-> 0, y_gap |-> 35]

\* mutant: MADCTL of 270 degrees without MV (0x88), its gap on the x axis
orientation_params_no_exchange(orientation) ==
    CASE orientation = DISPLAY_ORIENTATION_0 ->
           [valid |-> TRUE, madctl |-> 8, hor_res |-> LCD_H_RES, ver_res |-> LCD_V_RES,
            x_gap |-> 35, y_gap |-> 0]
      [] orientation = DISPLAY_ORIENTATION_90 ->
           [valid |-> TRUE, madctl |-> 104, hor_res |-> LCD_V_RES, ver_res |-> LCD_H_RES,
            x_gap |-> 0, y_gap |-> 35]
      [] orientation = DISPLAY_ORIENTATION_180 ->
           [valid |-> TRUE, madctl |-> 200, hor_res |-> LCD_H_RES, ver_res |-> LCD_V_RES,
            x_gap |-> 35, y_gap |-> 0]
      [] orientation = DISPLAY_ORIENTATION_270 ->
           [valid |-> TRUE, madctl |-> 136, hor_res |-> LCD_V_RES, ver_res |-> LCD_H_RES,
            x_gap |-> 35, y_gap |-> 0]
      [] OTHER ->
           [valid |-> FALSE, madctl |-> 0, hor_res |-> 0, ver_res |-> 0,
            x_gap |-> 0, y_gap |-> 0]

orientation_params(orientation) ==
    CASE orientation = DISPLAY_ORIENTATION_0 ->
           [valid |-> TRUE, madctl |-> 8, hor_res |-> LCD_H_RES, ver_res |-> LCD_V_RES,
            x_gap |-> 35, y_gap |-> 0]
      [] orientation = DISPLAY_ORIENTATION_90 ->
           [valid |-> TRUE, madctl |-> 104, hor_res |-> LCD_V_RES, ver_res |-> LCD_H_RES,
            x_gap |-> 0, y_gap |-> 35]
      [] orientation = DISPLAY_ORIENTATION_180 ->
           [valid |-> TRUE, madctl |-> 200, hor_res |-> LCD_H_RES, ver_res |-> LCD_V_RES,
            x_gap |-> 35, y_gap |-> 0]
      [] orientation = DISPLAY_ORIENTATION_270 ->
           [valid |-> TRUE, madctl |-> 168, hor_res |-> LCD_V_RES, ver_res |-> LCD_H_RES,
            x_gap |-> 0, y_gap |-> 35]
      [] OTHER ->
           [valid |-> FALSE, madctl |-> 0, hor_res |-> 0, ver_res |-> 0,
            x_gap |-> 0, y_gap |-> 0]

---------------------------------------------------------------------------
(* set_draw_area *)

\* the portrait orientations: the test of the ?: of max_x, max_y, hor_res, ver_res
Portrait(orientation) ==
    orientation = DISPLAY_ORIENTATION_0 \/ orientation = DISPLAY_ORIENTATION_180

\* mutant: the x limit is the panel's width in every orientation
max_x_portrait(orientation) == LCD_H_RES - 1

max_x(orientation) == IF Portrait(orientation) THEN LCD_H_RES - 1 ELSE LCD_V_RES - 1
max_y(orientation) == IF Portrait(orientation) THEN LCD_V_RES - 1 ELSE LCD_H_RES - 1

\* mutant: the ends are not lowered to the maximum
clamp_rect_no_upper(orientation, rect) ==
    << MAX(rect[1] + LCD_X_OFFSET, 0),
       rect[2] + LCD_X_OFFSET,
       MAX(rect[3] + LCD_Y_OFFSET, 0),
       rect[4] + LCD_Y_OFFSET >>

\* the offsets and the clamp: each start is raised to 0, each end lowered to
\* the maximum; a rect is <<x_start, x_end, y_start, y_end>>
clamp_rect(orientation, rect) ==
    << MAX(rect[1] + LCD_X_OFFSET, 0),
       MIN(rect[2] + LCD_X_OFFSET, max_x(orientation)),
       MAX(rect[3] + LCD_Y_OFFSET, 0),
       MIN(rect[4] + LCD_Y_OFFSET, max_y(orientation)) >>

\* mutant: 180 and 270 degrees without the mirroring, as 0 and 90 degrees
map_window_unmirrored(orientation, c) ==
    IF orientation \in {DISPLAY_ORIENTATION_0, DISPLAY_ORIENTATION_180}
    THEN [valid |-> TRUE, col_start |-> U16(c[1]), col_end |-> U16(c[2]),
          row_start |-> U16(c[3]), row_end |-> U16(c[4])]
    ELSE [valid |-> orientation \in Valid, col_start |-> U16(c[3]), col_end |-> U16(c[4]),
          row_start |-> U16(c[1]), row_end |-> U16(c[2])]

\* mutant: at 180 degrees the columns are counted from LCD_H_RES, not from
\* LCD_H_RES - 1
map_window_off_by_one(orientation, c) ==
    LET x_start == c[1]
        x_end == c[2]
        y_start == c[3]
        y_end == c[4]
        W(cs, ce, rs, re) ==
            [valid |-> TRUE, col_start |-> U16(cs), col_end |-> U16(ce),
             row_start |-> U16(rs), row_end |-> U16(re)]
    IN  CASE orientation = DISPLAY_ORIENTATION_0 ->
               W(x_start, x_end, y_start, y_end)
          [] orientation = DISPLAY_ORIENTATION_90 ->
               W(y_start, y_end, x_start, x_end)
          [] orientation = DISPLAY_ORIENTATION_180 ->
               W(LCD_H_RES - x_end, LCD_H_RES - x_start,
                 LCD_V_RES - 1 - y_end, LCD_V_RES - 1 - y_start)
          [] orientation = DISPLAY_ORIENTATION_270 ->
               W(LCD_H_RES - 1 - y_end, LCD_H_RES - 1 - y_start,
                 LCD_V_RES - 1 - x_end, LCD_V_RES - 1 - x_start)
          [] OTHER ->
               [valid |-> FALSE, col_start |-> 0, col_end |-> 0,
                row_start |-> 0, row_end |-> 0]

\* the switch on current_orientation, on the clamped rectangle c: the four
\* uint16_t window values, each an int converted to uint16_t by the
\* assignment; valid is FALSE in the default branch
map_window(orientation, c) ==
    LET x_start == c[1]
        x_end == c[2]
        y_start == c[3]
        y_end == c[4]
        W(cs, ce, rs, re) ==
            [valid |-> TRUE, col_start |-> U16(cs), col_end |-> U16(ce),
             row_start |-> U16(rs), row_end |-> U16(re)]
    IN  CASE orientation = DISPLAY_ORIENTATION_0 ->
               W(x_start, x_end, y_start, y_end)
          [] orientation = DISPLAY_ORIENTATION_90 ->
               W(y_start, y_end, x_start, x_end)
          [] orientation = DISPLAY_ORIENTATION_180 ->
               W(LCD_H_RES - 1 - x_end, LCD_H_RES - 1 - x_start,
                 LCD_V_RES - 1 - y_end, LCD_V_RES - 1 - y_start)
          [] orientation = DISPLAY_ORIENTATION_270 ->
               W(LCD_H_RES - 1 - y_end, LCD_H_RES - 1 - y_start,
                 LCD_V_RES - 1 - x_end, LCD_V_RES - 1 - x_start)
          [] OTHER ->
               [valid |-> FALSE, col_start |-> 0, col_end |-> 0,
                row_start |-> 0, row_end |-> 0]

\* the window of a rectangle: offsets, clamp, switch
draw_window(orientation, rect) == map_window(orientation, clamp_rect(orientation, rect))

\* params[0..3] of a window command
window_params(start, end) == HiLo(start) \o HiLo(end)

\* esp_lcd_panel_io_tx_param(io_handle, cmd, params, n)
tx_param(cmd, params, ok) == Ev("tx_param", <<cmd>> \o params, ok)

\* mutant: the result of the CASET command is not tested
send_window_no_abort(w, tx) ==
    LET caset == tx_param(CASET, window_params(w.col_start, w.col_end), tx # 1)
        raset == tx_param(RASET, window_params(w.row_start, w.row_end), tx # 2)
        ramwr == tx_param(RAMWR, <<>>, tx # 3)
    IN  IF ~w.valid THEN [ret |-> ESP_ERR_INVALID_STATE, ev |-> <<>>]
        ELSE IF ~raset.ok THEN [ret |-> ESP_FAIL, ev |-> <<caset, raset>>]
        ELSE IF ~ramwr.ok THEN [ret |-> ESP_FAIL, ev |-> <<caset, raset, ramwr>>]
        ELSE [ret |-> ESP_OK, ev |-> <<caset, raset, ramwr>>]

\* the three commands of set_draw_area for the window w, where the tx-th
\* fails (0: none): what set_draw_area returns and the commands it sends
send_window(w, tx) ==
    LET caset == tx_param(CASET, window_params(w.col_start, w.col_end), tx # 1)
        raset == tx_param(RASET, window_params(w.row_start, w.row_end), tx # 2)
        ramwr == tx_param(RAMWR, <<>>, tx # 3)
    IN  IF ~w.valid THEN [ret |-> ESP_ERR_INVALID_STATE, ev |-> <<>>]
        ELSE IF ~caset.ok THEN [ret |-> ESP_FAIL, ev |-> <<caset>>]
        ELSE IF ~raset.ok THEN [ret |-> ESP_FAIL, ev |-> <<caset, raset>>]
        ELSE IF ~ramwr.ok THEN [ret |-> ESP_FAIL, ev |-> <<caset, raset, ramwr>>]
        ELSE [ret |-> ESP_OK, ev |-> <<caset, raset, ramwr>>]

\* set_draw_area(x_start, x_end, y_start, y_end) under current_orientation =
\* orientation
set_draw_area(orientation, rect, tx) == send_window(draw_window(orientation, rect), tx)

\* the return of a set_draw_area called by another handler, as an entry of
\* that handler's trace
returned(rect, ret) == Ev("set_draw_area", rect, ret = ESP_OK)

\* esp_lcd_panel_io_tx_color(io_handle, -1, NULL, 0): the end of the payload
tx_color_end == Ev("tx_color", <<-1>>, TRUE)

---------------------------------------------------------------------------
(* clear_screen under current_orientation = orientation.  The buffer of     *)
(* hor_res * ver_res elements, every one set to color, is the pair          *)
(* <<number of elements, color>> at the end of the draw_bitmap entry.       *)

\* mutant: the allocation is tested after set_draw_area
clear_surface_late_test(hor_res, ver_res, color, env, area) ==
    LET malloc == Ev("heap_caps_malloc", <<hor_res * ver_res * 2>>, env.malloc)
        rect == <<0, hor_res - 1, 0, ver_res - 1>>
        bitmap == Ev("draw_bitmap", <<0, 0, hor_res, ver_res, hor_res * ver_res, color>>,
                     env.draw)
        free == Ev("free", <<>>, TRUE)
    IN  IF area.ret # ESP_OK
        THEN [ret |-> area.ret,
              ev |-> <<malloc>> \o area.ev \o <<returned(rect, area.ret), free>>]
        ELSE IF ~malloc.ok
        THEN [ret |-> ESP_ERR_NO_MEM,
              ev |-> <<malloc>> \o area.ev \o <<returned(rect, area.ret)>>]
        ELSE [ret |-> IF bitmap.ok THEN ESP_OK ELSE ESP_FAIL,
              ev |-> <<malloc>> \o area.ev
                       \o <<returned(rect, area.ret), bitmap, tx_color_end, free>>]

\* mutant: no free when set_draw_area fails
clear_surface_leaks(hor_res, ver_res, color, env, area) ==
    LET malloc == Ev("heap_caps_malloc", <<hor_res * ver_res * 2>>, env.malloc)
        rect == <<0, hor_res - 1, 0, ver_res - 1>>
        bitmap == Ev("draw_bitmap", <<0, 0, hor_res, ver_res, hor_res * ver_res, color>>,
                     env.draw)
        free == Ev("free", <<>>, TRUE)
    IN  IF ~malloc.ok THEN [ret |-> ESP_ERR_NO_MEM, ev |-> <<malloc>>]
        ELSE IF area.ret # ESP_OK
        THEN [ret |-> area.ret,
              ev |-> <<malloc>> \o area.ev \o <<returned(rect, area.ret)>>]
        ELSE [ret |-> IF bitmap.ok THEN ESP_OK ELSE ESP_FAIL,
              ev |-> <<malloc>> \o area.ev
                       \o <<returned(rect, area.ret), bitmap, tx_color_end, free>>]

\* clear_screen from the allocation on, for the surface hor_res x ver_res,
\* where set_draw_area(0, hor_res - 1, 0, ver_res - 1) does area
clear_surface(hor_res, ver_res, color, env, area) ==
    LET malloc == Ev("heap_caps_malloc", <<hor_res * ver_res * 2>>, env.malloc)
        rect == <<0, hor_res - 1, 0, ver_res - 1>>
        bitmap == Ev("draw_bitmap", <<0, 0, hor_res, ver_res, hor_res * ver_res, color>>,
                     env.draw)
        free == Ev("free", <<>>, TRUE)
    IN  IF ~malloc.ok THEN [ret |-> ESP_ERR_NO_MEM, ev |-> <<malloc>>]
        ELSE IF area.ret # ESP_OK
        THEN [ret |-> area.ret,
              ev |-> <<malloc>> \o area.ev \o <<returned(rect, area.ret), free>>]
        ELSE [ret |-> IF bitmap.ok THEN ESP_OK ELSE ESP_FAIL,
              ev |-> <<malloc>> \o area.ev
                       \o <<returned(rect, area.ret), bitmap, tx_color_end, free>>]

\* mutant: clear_screen takes the panel's width in every orientation
hor_res_of_portrait(orientation) == LCD_H_RES

hor_res_of(orientation) == IF Portrait(orientation) THEN LCD_H_RES ELSE LCD_V_RES
ver_res_of(orientation) == IF Portrait(orientation) THEN LCD_V_RES ELSE LCD_H_RES

\* mutant: the buffer is one line short of the surface
clear_screen_one_short(orientation, color, env) ==
    clear_surface(hor_res_of(orientation), ver_res_of(orientation) - 1, color, env,
                  set_draw_area(orientation,
                                <<0, hor_res_of(orientation) - 1,
                                  0, ver_res_of(orientation) - 1>>, env.tx))

clear_screen(orientation, color, env) ==
    clear_surface(hor_res_of(orientation), ver_res_of(orientation), color, env,
                  set_draw_area(orientation,
                                <<0, hor_res_of(orientation) - 1,
                                  0, ver_res_of(orientation) - 1>>, env.tx))

---------------------------------------------------------------------------
(* test_fill_screen under current_orientation = orientation: five           *)
(* clear_screen calls, whose results are logged only, then the edge test.   *)
(* envs[i] is what the transport and the heap do in the i-th clear_screen,  *)
(* envs[6] what they do in the edge test.                                   *)

\* colors[]: red, blue, green, black, white
TestColors == <<63488, 31, 2016, 0, 65535>>

\* the return of a clear_screen called by test_fill_screen, as an entry of
\* its trace
cleared(color, ret) == Ev("clear_screen", <<color>>, ret = ESP_OK)

\* the i-th turn of the loop
test_clear(color, clear) == clear.ev \o <<cleared(color, clear.ret)>>

\* the edge test from the allocation on, where
\* set_draw_area(0, hor_res - 1, 0, ver_res - 1) does area; the buffer of the
\* strips is the number of its elements at the end of the draw_bitmap entry
test_edges(hor_res, ver_res, env, area) ==
    LET malloc == Ev("heap_caps_malloc", <<hor_res * ver_res * 2>>, env.malloc)
        rect == <<0, hor_res - 1, 0, ver_res - 1>>
        bitmap == Ev("draw_bitmap", <<0, 0, hor_res, ver_res, hor_res * ver_res>>, env.draw)
        free == Ev("free", <<>>, TRUE)
    IN  IF ~malloc.ok THEN <<malloc>>
        ELSE IF area.ret # ESP_OK
        THEN <<malloc>> \o area.ev \o <<returned(rect, area.ret), free>>
        ELSE <<malloc>> \o area.ev \o <<returned(rect, area.ret), bitmap, tx_color_end, free>>

test_fill_screen(orientation, envs) ==
    test_clear(TestColors[1], clear_screen(orientation, TestColors[1], envs[1]))
    \o test_clear(TestColors[2], clear_screen(orientation, TestColors[2], envs[2]))
    \o test_clear(TestColors[3], clear_screen(orientation, TestColors[3], envs[3]))
    \o test_clear(TestColors[4], clear_screen(orientation, TestColors[4], envs[4]))
    \o test_clear(TestColors[5], clear_screen(orientation, TestColors[5], envs[5]))
    \o test_edges(hor_res_of(orientation), ver_res_of(orientation), envs[6],
                  set_draw_area(orientation,
                                <<0, hor_res_of(orientation) - 1,
                                  0, ver_res_of(orientation) - 1>>, envs[6].tx))

---------------------------------------------------------------------------
(* set_display_orientation(orientation), called with the globals at         *)
(* current_orientation = cur, lvgl_disp = disp, *lvgl_disp->driver = drv    *)
(* and the panel at pan: what it returns, its trace and what it leaves in   *)
(* the globals and in the panel.                                            *)

\* the clear's set_draw_area sends the 2nd to 4th command of the call
clear_env(env) == [env EXCEPT !.tx = IF env.tx = 0 THEN 0 ELSE env.tx - 1]

\* mutant: current_orientation and the LVGL resolution are written before the
\* gap is set
switch_orientation_store_first(orientation, p, cur, disp, drv, pan, env, clear) ==
    LET same == [current_orientation |-> cur, disp_drv |-> drv, panel |-> pan]
        madctl == tx_param(MADCTL, <<p.madctl>>, env.tx # 1)
        gap == Ev("set_gap", <<p.x_gap, p.y_gap>>, env.gap)
        pan1 == [pan EXCEPT !.madctl = p.madctl]
        pan2 == [pan1 EXCEPT !.x_gap = p.x_gap, !.y_gap = p.y_gap]
        store == Ev("current_orientation", <<orientation>>, TRUE)
        lvgl == IF disp
                THEN <<Ev("disp_drv", <<p.hor_res, p.ver_res>>, TRUE),
                       Ev("lv_disp_set_rotation", <<orientation * 90>>, TRUE)>>
                ELSE <<>>
        drv2 == IF disp THEN [hor_res |-> p.hor_res, ver_res |-> p.ver_res] ELSE drv
    IN  IF ~p.valid
        THEN [ret |-> ESP_ERR_INVALID_ARG, ev |-> <<>>] @@ same
        ELSE IF ~madctl.ok
        THEN [ret |-> ESP_FAIL, ev |-> <<madctl>>] @@ same
        ELSE IF ~gap.ok
        THEN [ret |-> ESP_FAIL, ev |-> <<madctl, store>> \o lvgl \o <<gap>>,
              current_orientation |-> orientation, disp_drv |-> drv2, panel |-> pan1]
        ELSE [ret |-> clear.ret,
              ev |-> <<madctl, store>> \o lvgl \o <<gap>> \o clear.ev,
              current_orientation |-> orientation, disp_drv |-> drv2, panel |-> pan2]

\* set_display_orientation after the switch gave p, where clear_screen(0x0000)
\* does clear
switch_orientation(orientation, p, cur, disp, drv, pan, env, clear) ==
    LET same == [current_orientation |-> cur, disp_drv |-> drv, panel |-> pan]
        madctl == tx_param(MADCTL, <<p.madctl>>, env.tx # 1)
        gap == Ev("set_gap", <<p.x_gap, p.y_gap>>, env.gap)
        \* the panel after the MADCTL command, and after the gap
        pan1 == [pan EXCEPT !.madctl = p.madctl]
        pan2 == [pan1 EXCEPT !.x_gap = p.x_gap, !.y_gap = p.y_gap]
        store == Ev("current_orientation", <<orientation>>, TRUE)
        lvgl == IF disp
                THEN <<Ev("disp_drv", <<p.hor_res, p.ver_res>>, TRUE),
                       Ev("lv_disp_set_rotation", <<orientation * 90>>, TRUE)>>
                ELSE <<>>
        drv2 == IF disp THEN [hor_res |-> p.hor_res, ver_res |-> p.ver_res] ELSE drv
    IN  IF ~p.valid
        THEN [ret |-> ESP_ERR_INVALID_ARG, ev |-> <<>>] @@ same
        ELSE IF ~madctl.ok
        THEN [ret |-> ESP_FAIL, ev |-> <<madctl>>] @@ same
        ELSE IF ~gap.ok
        THEN [ret |-> ESP_FAIL, ev |-> <<madctl, gap>>] @@ [same EXCEPT !.panel = pan1]
        ELSE [ret |-> clear.ret,
              ev |-> <<madctl, gap, store>> \o lvgl \o clear.ev,
              current_orientation |-> orientation, disp_drv |-> drv2, panel |-> pan2]

\* mutant: the clear is sized for the orientation the call found
set_display_orientation_clears_old(orientation, cur, disp, drv, pan, env) ==
    switch_orientation(orientation, orientation_params(orientation), cur, disp, drv, pan,
                       env, clear_screen(cur, 0, clear_env(env)))

set_display_orientation(orientation, cur, disp, drv, pan, env) ==
    switch_orientation(orientation, orientation_params(orientation), cur, disp, drv, pan,
                       env, clear_screen(orientation, 0, clear_env(env)))

---------------------------------------------------------------------------
(* lvgl_flush_cb(disp_drv, area, color_p) under current_orientation =       *)
(* orientation: its trace (it returns nothing)                              *)

\* mutant: the flush is reported ready on every path
flush_area_ready_on_error(area, env, begin) ==
    LET bitmap == Ev("draw_bitmap", <<area[1], area[3], area[2] + 1, area[4] + 1>>, env.draw)
        ready == Ev("lv_disp_flush_ready", <<>>, TRUE)
    IN  IF begin.ret # ESP_OK THEN begin.ev \o <<returned(area, begin.ret), ready>>
        ELSE IF ~bitmap.ok THEN begin.ev \o <<returned(area, begin.ret), bitmap, ready>>
        ELSE begin.ev \o <<returned(area, begin.ret), bitmap, tx_color_end, ready>>

\* mutant: the flush is reported ready before the payload is ended
flush_area_ready_first(area, env, begin) ==
    LET bitmap == Ev("draw_bitmap", <<area[1], area[3], area[2] + 1, area[4] + 1>>, env.draw)
        ready == Ev("lv_disp_flush_ready", <<>>, TRUE)
    IN  IF begin.ret # ESP_OK THEN begin.ev \o <<returned(area, begin.ret)>>
        ELSE IF ~bitmap.ok THEN begin.ev \o <<returned(area, begin.ret), bitmap>>
        ELSE begin.ev \o <<returned(area, begin.ret), bitmap, ready, tx_color_end>>

\* lvgl_flush_cb after set_draw_area did begin
flush_area(area, env, begin) ==
    LET bitmap == Ev("draw_bitmap", <<area[1], area[3], area[2] + 1, area[4] + 1>>, env.draw)
        ready == Ev("lv_disp_flush_ready", <<>>, TRUE)
    IN  IF begin.ret # ESP_OK THEN begin.ev \o <<returned(area, begin.ret)>>
        ELSE IF ~bitmap.ok THEN begin.ev \o <<returned(area, begin.ret), bitmap>>
        ELSE begin.ev \o <<returned(area, begin.ret), bitmap, tx_color_end, ready>>

lvgl_flush_cb(orientation, area, env) ==
    flush_area(area, env, set_draw_area(orientation, area, env.tx))

---------------------------------------------------------------------------
(* The rectangles the handlers are called with *)

Pairs(S) == {p \in S \X S : p[1] <= p[2]}

\* <<x_start, x_end, y_start, y_end>> with x_start <= x_end, y_start <= y_end
Rects(S) == {<<x[1], x[2], y[1], y[2]>> : x \in Pairs(S), y \in Pairs(S)}

\* coordinates before, inside and beyond every surface
FlushCoords == {-Over, Inner, LCD_V_RES - 1 + Over}

\* the same with both edges of either dimension and the mirror images of Inner
DrawCoords == {-Over, 0, Inner, LCD_H_RES - 1 - Inner, LCD_H_RES - 1, LCD_H_RES,
               LCD_V_RES - 1 - Inner, LCD_V_RES - 1, LCD_V_RES - 1 + Over}

RetryCoords == {-Over, Inner}

---------------------------------------------------------------------------
(* State *)

\* the last call: the handler, its arguments, what it returned and its trace
Call(op, arg, ret, events) == [op |-> op, arg |-> arg, ret |-> ret, events |-> events]

NoCall == Call("none", <<>>, "none", <<>>)

\* the call of a handler that did r
Returned(op, arg, r) == Call(op, arg, r.ret, r.ev)

\* history of the calls:
\*   fresh    (SpecRetry) <<orientation, rect, trace>> of the last successful
\*            set_draw_area that did not follow a failed call with the same
\*            rectangle; (SpecReorient) see there
\*   retried  the last call succeeded right after a call with the same
\*            argument (SpecRetry: a failed one, SpecReorient: a successful one)
\*   oriented a set_display_orientation has returned ESP_OK
NoHist == [fresh |-> <<>>, retried |-> FALSE, oriented |-> FALSE]

\* the tasks (followed under SpecTasks only):
\*   sys_time  LVGL's time, which lv_tick_inc advances
\*   todo      what the handler that the main task is in has still to do: the
\*             rest of its trace
\*   ret       what this handler will return ("none": the main task is in no
\*             handler)
\*   after     what this handler leaves in current_orientation, in the
\*             driver's resolution and in the panel
\*   stamp     sys_time at the last step of the main task
NoTasks == [sys_time |-> 0, todo |-> <<>>, ret |-> "none", after |-> <<>>, stamp |-> 0]

\* the panel after reset: MADCTL 0x00, no gap
PanelReset == [madctl |-> 0, x_gap |-> 0, y_gap |-> 0]

\* the statics of main.c, with the panel reset and initialised, at the call
\* of set_display_orientation that ends init_display
Init ==
    /\ pc = "init_display"
    /\ current_orientation = DISPLAY_ORIENTATION_90
    /\ lvgl_disp = FALSE
    /\ disp_drv = [hor_res |-> 0, ver_res |-> 0]
    /\ panel = PanelReset
    /\ call = NoCall
    /\ hist = NoHist
    /\ tasks = NoTasks

\* the call of set_display_orientation(orientation) and what it leaves
Oriented(orientation, r) ==
    /\ current_orientation' = r.current_orientation
    /\ disp_drv' = r.disp_drv
    /\ panel' = r.panel
    /\ call' = Call("set_display_orientation", <<orientation>>, r.ret, r.ev)
    /\ hist' = [hist EXCEPT !.oriented = @ \/ r.ret = ESP_OK]
    /\ UNCHANGED <<lvgl_disp, tasks>>

Orient(orientation, env) ==
    Oriented(orientation,
             set_display_orientation(orientation, current_orientation, lvgl_disp,
                                     disp_drv, panel, env))

\* init_display, its end: the initial orientation; the error is logged only
InitDisplay(env) ==
    /\ pc = "init_display"
    /\ Orient(DISPLAY_ORIENTATION_90, env)
    /\ pc' = "init_lvgl"

\* mutant: the driver is registered with the panel's resolution, 170 x 320
InitLvgl_portrait ==
    /\ pc = "init_lvgl"
    /\ disp_drv' = [hor_res |-> LCD_H_RES, ver_res |-> LCD_V_RES]
    /\ lvgl_disp' = TRUE
    /\ pc' = "run"
    /\ call' = Call("init_lvgl", <<>>, "void", <<>>)
    /\ UNCHANGED <<current_orientation, panel, hist, tasks>>

\* init_lvgl: the driver's resolution and the registration of the display
InitLvgl ==
    /\ pc = "init_lvgl"
    /\ disp_drv' = [hor_res |-> LCD_V_RES, ver_res |-> LCD_H_RES]
    /\ lvgl_disp' = TRUE
    /\ pc' = "run"
    /\ call' = Call("init_lvgl", <<>>, "void", <<>>)
    /\ UNCHANGED <<current_orientation, panel, hist, tasks>>

\* app_main from the start of the tick task on: the calls it makes, in any
\* order and with any argument
SetDisplayOrientation(orientation, env) ==
    /\ pc = "run"
    /\ Orient(orientation, env)
    /\ UNCHANGED pc

ClearScreen(color, env) ==
    /\ pc = "run"
    /\ call' = Returned("clear_screen", <<color>>, clear_screen(current_orientation, color, env))
    /\ UNCHANGED <<pc, current_orientation, lvgl_disp, disp_drv, panel, hist, tasks>>

\* lv_task_handler: LVGL flushes an area of the registered display
LvglFlushCb(area, env) ==
    /\ pc = "run"
    /\ lvgl_disp
    /\ call' = Call("lvgl_flush_cb", area, "void",
                    lvgl_flush_cb(current_orientation, area, env))
    /\ UNCHANGED <<pc, current_orientation, lvgl_disp, disp_drv, panel, hist, tasks>>

\* mutant: a failed set_draw_area leaves the default orientation behind
SetDrawArea_failure_resets(rect, env) ==
    /\ pc = "run"
    /\ call' = Returned("set_draw_area", rect, set_draw_area(current_orientation, rect, env.tx))
    /\ current_orientation' = IF env.tx = 0 THEN current_orientation
                              ELSE DISPLAY_ORIENTATION_90
    /\ UNCHANGED <<pc, lvgl_disp, disp_drv, panel>>

SetDrawArea(rect, env) ==
    /\ pc = "run"
    /\ call' = Returned("set_draw_area", rect, set_draw_area(current_orientation, rect, env.tx))
    /\ UNCHANGED <<pc, current_orientation, lvgl_disp, disp_drv, panel>>

Next ==
    \/ \E env \in OrientEnvs : InitDisplay(env)
    \/ InitLvgl
    \/ \E o \in Orientations, env \in OrientEnvs : SetDisplayOrientation(o, env)
    \/ \E c \in Colors, env \in ClearEnvs : ClearScreen(c, env)
    \/ \E area \in Rects(FlushCoords), env \in FlushEnvs : LvglFlushCb(area, env)

Spec == Init /\ [][Next]_vars

---------------------------------------------------------------------------
(* set_draw_area alone: one call, in any orientation the program reaches,   *)
(* with any rectangle                                                      *)

InitDraw ==
    /\ pc = "run"
    /\ current_orientation \in Valid
    /\ lvgl_disp = TRUE
    /\ LET p == orientation_params(current_orientation)
       IN  /\ disp_drv = [hor_res |-> p.hor_res, ver_res |-> p.ver_res]
           /\ panel = [madctl |-> p.madctl, x_gap |-> p.x_gap, y_gap |-> p.y_gap]
    /\ call = NoCall
    /\ hist = NoHist
    /\ tasks = NoTasks

Draw(rect, env) ==
    /\ call = NoCall
    /\ SetDrawArea(rect, env)
    /\ UNCHANGED <<hist, tasks>>

NextDraw == \E rect \in Rects(DrawCoords), env \in DrawEnvs : Draw(rect, env)

SpecDraw == InitDraw /\ [][NextDraw]_vars

---------------------------------------------------------------------------
(* set_draw_area called again and again, with the history of its calls      *)

Retry(rect, env) ==
    /\ SetDrawArea(rect, env)
    /\ UNCHANGED tasks
    /\ LET again == call.op = "set_draw_area" /\ call.ret # ESP_OK /\ call.arg = rect
       IN  hist' = IF call'.ret # ESP_OK THEN [hist EXCEPT !.retried = FALSE]
                   ELSE IF again THEN [hist EXCEPT !.retried = TRUE]
                   ELSE [fresh |-> <<current_orientation, rect, call'.events>>,
                         retried |-> FALSE, oriented |-> hist.oriented]

NextRetry == \E rect \in Rects(RetryCoords), env \in DrawEnvs : Retry(rect, env)

SpecRetry == InitDraw /\ [][NextRetry]_vars

---------------------------------------------------------------------------
(* set_display_orientation called again and again, with the history of its  *)
(* calls:                                                                   *)
(*   fresh    <<current_orientation before the first call of the run>>,     *)
(*            where a run is a sequence of successful calls with the same   *)
(*            argument                                                      *)
(*   retried  the last call succeeded right after a successful call with    *)
(*            the same argument                                             *)

\* mutant: the argument is taken as a turn from the current orientation
Reoriented_relative(orientation, r) ==
    /\ current_orientation' = IF r.ret = ESP_OK
                              THEN (current_orientation + orientation) % 4
                              ELSE r.current_orientation
    /\ disp_drv' = r.disp_drv
    /\ panel' = r.panel
    /\ call' = Call("set_display_orientation", <<orientation>>, r.ret, r.ev)
    /\ hist' = IF r.ret = ESP_OK /\ call.op = "set_display_orientation"
                    /\ call.ret = ESP_OK /\ call.arg = <<orientation>>
               THEN [hist EXCEPT !.retried = TRUE]
               ELSE [fresh |-> <<current_orientation>>, retried |-> FALSE,
                     oriented |-> hist.oriented]
    /\ UNCHANGED <<pc, lvgl_disp, tasks>>

\* the call of set_display_orientation(orientation), what it leaves and the
\* history
Reoriented(orientation, r) ==
    /\ current_orientation' = r.current_orientation
    /\ disp_drv' = r.disp_drv
    /\ panel' = r.panel
    /\ call' = Call("set_display_orientation", <<orientation>>, r.ret, r.ev)
    /\ hist' = IF r.ret = ESP_OK /\ call.op = "set_display_orientation"
                    /\ call.ret = ESP_OK /\ call.arg = <<orientation>>
               THEN [hist EXCEPT !.retried = TRUE]
               ELSE [fresh |-> <<current_orientation>>, retried |-> FALSE,
                     oriented |-> hist.oriented]
    /\ UNCHANGED <<pc, lvgl_disp, tasks>>

Reorient(orientation, env) ==
    /\ pc = "run"
    /\ Reoriented(orientation,
                  set_display_orientation(orientation, current_orientation, lvgl_disp,
                                          disp_drv, panel, env))

NextReorient == \E o \in Orientations, env \in OrientEnvs : Reorient(o, env)

SpecReorient == InitDraw /\ [][NextReorient]_vars

---------------------------------------------------------------------------
(* The buffers: one call of clear_screen or of test_fill_screen, in any     *)
(* orientation, where the heap and the transport fail at any point          *)

\* what the transport and the heap do in one clear_screen or in the edge
\* test: every way out of it
TestEnvs == {AllOk, Env(0, TRUE, FALSE, TRUE), Env(2, TRUE, TRUE, TRUE),
             Env(0, TRUE, TRUE, FALSE)}

TestFillScreen(envs) ==
    /\ pc = "run"
    /\ call' = Call("test_fill_screen", <<>>, "void",
                    test_fill_screen(current_orientation, envs))
    /\ UNCHANGED <<pc, current_orientation, lvgl_disp, disp_drv, panel, hist, tasks>>

NextTest ==
    \/ \E c \in Colors, env \in ClearEnvs : call = NoCall /\ ClearScreen(c, env)
    \/ \E envs \in [1..6 -> TestEnvs] : call = NoCall /\ TestFillScreen(envs)

SpecTest == InitDraw /\ [][NextTest]_vars

---------------------------------------------------------------------------
(* The two tasks from xTaskCreate on: the main task goes through a handler  *)
(* entry by entry of its trace, and lvgl_tick_task runs between any two of  *)
(* its steps.  All the handlers are called by app_main, lvgl_flush_cb by    *)
(* its lv_task_handler calls.                                               *)

\* what the handlers read and write
Sequencer ==
    [current_orientation |-> current_orientation, disp_drv |-> disp_drv, panel |-> panel]

\* the main task enters a handler that does the trace ev, returns ret and
\* leaves after
Enters(op, arg, ret, ev, after) ==
    /\ pc = "run"
    /\ tasks.ret = "none"
    /\ call' = Call(op, arg, "running", <<>>)
    /\ tasks' = [tasks EXCEPT !.todo = ev, !.ret = ret, !.after = after,
                              !.stamp = tasks.sys_time]
    /\ UNCHANGED <<pc, current_orientation, lvgl_disp, disp_drv, panel, hist>>

EntersOrient(orientation, r) ==
    Enters("set_display_orientation", <<orientation>>, r.ret, r.ev,
           [current_orientation |-> r.current_orientation, disp_drv |-> r.disp_drv,
            panel |-> r.panel])

EntersClear(color, r) == Enters("clear_screen", <<color>>, r.ret, r.ev, Sequencer)

TaskOrient(orientation, env) ==
    EntersOrient(orientation,
                 set_display_orientation(orientation, current_orientation, lvgl_disp,
                                         disp_drv, panel, env))

TaskClear(color, env) == EntersClear(color, clear_screen(current_orientation, color, env))

TaskFlush(area, env) ==
    /\ lvgl_disp
    /\ Enters("lvgl_flush_cb", area, "void",
              lvgl_flush_cb(current_orientation, area, env), Sequencer)

\* the main task does the entry e: the panel takes a MADCTL command and a
\* gap it accepts, the stores write the statics
Does(e) ==
    /\ call' = [call EXCEPT !.events = Append(@, e)]
    /\ current_orientation' =
          IF e.op = "current_orientation" THEN e.a[1] ELSE current_orientation
    /\ disp_drv' =
          IF e.op = "disp_drv" THEN [hor_res |-> e.a[1], ver_res |-> e.a[2]] ELSE disp_drv
    /\ panel' =
          IF e.op = "tx_param" /\ e.a[1] = MADCTL /\ e.ok
          THEN [panel EXCEPT !.madctl = e.a[2]]
          ELSE IF e.op = "set_gap" /\ e.ok
          THEN [panel EXCEPT !.x_gap = e.a[1], !.y_gap = e.a[2]]
          ELSE panel
    /\ tasks' = [tasks EXCEPT !.todo = Tail(@), !.stamp = tasks.sys_time]
    /\ UNCHANGED <<pc, lvgl_disp, hist>>

TaskStep ==
    /\ tasks.todo # <<>>
    /\ Does(Head(tasks.todo))

TaskReturn ==
    /\ tasks.ret # "none"
    /\ tasks.todo = <<>>
    /\ call' = [call EXCEPT !.ret = tasks.ret]
    /\ tasks' = [tasks EXCEPT !.ret = "none", !.stamp = tasks.sys_time]
    /\ UNCHANGED <<pc, current_orientation, lvgl_disp, disp_drv, panel, hist>>

\* mutant: the tick task turns the display
LvglTickTask_turns ==
    /\ pc = "run"
    /\ tasks.sys_time < MaxTicks * 10
    /\ tasks' = [tasks EXCEPT !.sys_time = @ + 10]
    /\ current_orientation' = (current_orientation + 1) % 4
    /\ UNCHANGED <<pc, lvgl_disp, disp_drv, panel, call, hist>>

\* lvgl_tick_task, one turn of its loop: lv_tick_inc(10)
LvglTickTask ==
    /\ pc = "run"
    /\ tasks.sys_time < MaxTicks * 10
    /\ tasks' = [tasks EXCEPT !.sys_time = @ + 10]
    /\ UNCHANGED <<pc, current_orientation, lvgl_disp, disp_drv, panel, call, hist>>

NextTasks ==
    \/ \E o \in Orientations, env \in OrientEnvs : TaskOrient(o, env)
    \/ \E c \in Colors, env \in ClearEnvs : TaskClear(c, env)
    \/ \E area \in Rects(RetryCoords), env \in FlushEnvs : TaskFlush(area, env)
    \/ TaskStep
    \/ TaskReturn
    \/ LvglTickTask

SpecTasks == InitDraw /\ [][NextTasks]_vars

---------------------------------------------------------------------------
(* Properties *)

\* the positions of the entries op in a trace
At(ev, op) == {i \in DOMAIN ev : ev[i].op = op}

Has(ev, op) == At(ev, op) # {}

\* the set_draw_area a handler called returned an error / ESP_OK
BeginFailed(ev) == \E i \in At(ev, "set_draw_area") : ~ev[i].ok
BeginOk(ev) == \E i \in At(ev, "set_draw_area") : ev[i].ok

\* the bitmap was sent and the transport refused / accepted it
StreamFailed(ev) == \E i \in At(ev, "draw_bitmap") : ~ev[i].ok
StreamOk(ev) == \E i \in At(ev, "draw_bitmap") : ev[i].ok

\* the trace ends with one bitmap, one end of payload and one flush-ready, in
\* this order, and holds no other of them
StreamEndReady(ev) ==
    /\ Len(ev) >= 3
    /\ At(ev, "draw_bitmap") = {Len(ev) - 2}
    /\ At(ev, "tx_color") = {Len(ev) - 1}
    /\ At(ev, "lv_disp_flush_ready") = {Len(ev)}

\* C1: a lvgl_flush_cb whose set_draw_area returned an error neither calls
\* lv_disp_flush_ready nor sends the bitmap, whatever the area and the
\* orientation.
C1_FailedBeginNotReady ==
    (call.op = "lvgl_flush_cb" /\ BeginFailed(call.events))
        => /\ ~Has(call.events, "lv_disp_flush_ready")
           /\ ~Has(call.events, "draw_bitmap")

\* a flush at 180 degrees of an area reaching beyond the surface, whose RASET
\* command failed
C1_Witness ==
    /\ call.op = "lvgl_flush_cb"
    /\ BeginFailed(call.events)
    /\ current_orientation = DISPLAY_ORIENTATION_180
    /\ call.arg[2] > LCD_V_RES - 1
    /\ Len(call.events) = 3

IsOrient(c) == c.op = "set_display_orientation"

\* the last thing the call did was a MADCTL command or a gap update that failed
CommandFailed(ev) ==
    /\ Len(ev) > 0
    /\ ~ev[Len(ev)].ok
    /\ \/ ev[Len(ev)].op = "tx_param" /\ ev[Len(ev)].a[1] = MADCTL
       \/ ev[Len(ev)].op = "set_gap"

\* what the panel holds when it shows orientation o
PanelOf(o) ==
    [madctl |-> orientation_params(o).madctl, x_gap |-> orientation_params(o).x_gap,
     y_gap |-> orientation_params(o).y_gap]

\* C3: a set_display_orientation whose MADCTL command or gap update fails
\* returns an error and leaves current_orientation and the resolution of the
\* LVGL driver as they were.
C3_FailedCommandKeepsState ==
    [][(IsOrient(call') /\ CommandFailed(call'.events))
         => /\ call'.ret # ESP_OK
            /\ current_orientation' = current_orientation
            /\ disp_drv' = disp_drv]_vars

\* with the display registered, the gap update of a change to another
\* orientation failed
C3_Witness ==
    /\ IsOrient(call)
    /\ CommandFailed(call.events)
    /\ call.events[Len(call.events)].op = "set_gap"
    /\ lvgl_disp
    /\ call.arg[1] \in Valid
    /\ call.arg[1] # current_orientation

\* C4, as claimed: after a set_display_orientation that returns an error the
\* panel holds the MADCTL value and the gap it held before, so that a panel
\* that showed current_orientation still shows it.
C4_FailedOrientKeepsPanel ==
    [][(IsOrient(call') /\ call'.ret # ESP_OK /\ panel = PanelOf(current_orientation))
         => /\ panel' = panel
            /\ panel' = PanelOf(current_orientation')]_vars

\* C5, as claimed: once the display is registered, current_orientation and
\* the resolution of the LVGL driver change only in a set_display_orientation
\* that returns ESP_OK.
C5_ChangeOnlyOnSuccess ==
    [][(pc = "run" /\ (current_orientation' # current_orientation \/ disp_drv' # disp_drv))
         => (IsOrient(call') /\ call'.ret = ESP_OK)]_vars

\* C6: set_display_orientation with a value that is none of the four
\* enumerators returns ESP_ERR_INVALID_ARG, calls nothing, and leaves
\* current_orientation, the LVGL resolution and the panel as they were.
C6_InvalidOrientationRejected ==
    [][(IsOrient(call') /\ call'.arg[1] \notin Valid)
         => /\ call'.ret = ESP_ERR_INVALID_ARG
            /\ call'.events = <<>>
            /\ UNCHANGED <<current_orientation, disp_drv, panel>>]_vars

\* set_display_orientation(4) was called
C6_Witness ==
    /\ IsOrient(call)
    /\ call.arg = <<DISPLAY_ORIENTATION_270 + 1>>
    /\ call.ret = ESP_ERR_INVALID_ARG

\* the call was set_draw_area
IsDraw(c) == c.op = "set_draw_area"

\* the order of the commands of set_draw_area
WindowCommands == <<CASET, RASET, RAMWR>>

\* C7: set_draw_area sends CASET, RASET, RAMWR in this order; the first
\* command that fails is the last one sent and set_draw_area then returns an
\* error; it returns ESP_OK only when the three commands succeeded.
C7_CommandsInOrderUntilFailure ==
    IsDraw(call)
        => /\ Len(call.events) \in 1..3
           /\ \A i \in DOMAIN call.events :
                /\ call.events[i].op = "tx_param"
                /\ call.events[i].a[1] = WindowCommands[i]
                /\ i < Len(call.events) => call.events[i].ok
           /\ call.ret = ESP_OK
                <=> (Len(call.events) = 3 /\ \A i \in 1..3 : call.events[i].ok)
           /\ call.ret # ESP_OK => ~call.events[Len(call.events)].ok

\* the RASET command failed: no RAMWR was sent
C7_Witness ==
    /\ IsDraw(call)
    /\ call.ret # ESP_OK
    /\ Len(call.events) = 2
    /\ call.events[1].ok
    /\ call.events[2].a[1] = RASET

\* every entry of the trace was accepted
AllAccepted(ev) == \A i \in DOMAIN ev : ev[i].ok

\* the successful call the history holds had the orientation and the
\* rectangle of call c
FreshFor(h, o, c) == h.fresh # <<>> /\ h.fresh[1] = o /\ h.fresh[2] = c.arg

\* C8: a set_draw_area that fails leaves current_orientation, the LVGL
\* resolution and the panel's orientation as they were; called again with the
\* same rectangle, with every command accepted, it returns ESP_OK and sends
\* what a call that followed no failure sent for this rectangle.
C8_RetryAsFresh ==
    [][IsDraw(call')
         => /\ call'.ret # ESP_OK
                => UNCHANGED <<current_orientation, disp_drv, panel, lvgl_disp>>
            /\ (IsDraw(call) /\ call.ret # ESP_OK /\ call'.arg = call.arg
                  /\ AllAccepted(call'.events))
                => /\ call'.ret = ESP_OK
                   /\ Len(call'.events) = 3
                   /\ FreshFor(hist, current_orientation', call')
                        => call'.events = hist.fresh[3]]_vars

\* a retry that succeeded, of a rectangle which a call that followed no
\* failure was made for in this orientation
C8_Witness ==
    /\ IsDraw(call)
    /\ call.ret = ESP_OK
    /\ hist.retried
    /\ FreshFor(hist, current_orientation, call)

\* the logical surface of orientation o, stated from the panel's dimensions
SurfaceW(o) ==
    IF o \in {DISPLAY_ORIENTATION_90, DISPLAY_ORIENTATION_270} THEN LCD_V_RES ELSE LCD_H_RES
SurfaceH(o) ==
    IF o \in {DISPLAY_ORIENTATION_90, DISPLAY_ORIENTATION_270} THEN LCD_H_RES ELSE LCD_V_RES

\* the rectangle r lies inside the surface / has a pixel in common with it
Inside(o, r) ==
    0 <= r[1] /\ r[2] <= SurfaceW(o) - 1 /\ 0 <= r[3] /\ r[4] <= SurfaceH(o) - 1
Meets(o, r) ==
    r[1] <= SurfaceW(o) - 1 /\ 0 <= r[2] /\ r[3] <= SurfaceH(o) - 1 /\ 0 <= r[4]

PartlyOutside(o, r) == Meets(o, r) /\ ~Inside(o, r)

\* the start and the end a window command carries: two 16-bit values, each
\* high byte first
Sent(e) == << e.a[2] * 256 + e.a[3], e.a[4] * 256 + e.a[5] >>

\* start <= end, both within a dimension of the panel
Within(pair, dimension) == 0 <= pair[1] /\ pair[1] <= pair[2] /\ pair[2] <= dimension - 1

\* the windows the call sent lie in the panel, start <= end
WindowsInPanel(ev) ==
    /\ Len(ev) >= 1 => Within(Sent(ev[1]), LCD_H_RES)
    /\ Len(ev) >= 2 => Within(Sent(ev[2]), LCD_V_RES)

\* C9: for a rectangle that lies partly outside the logical surface (it has
\* pixels inside and pixels outside), in every orientation, set_draw_area
\* does not fail in the translation and the window it sends has
\* col_start <= col_end within 0..169 and row_start <= row_end within 0..319.
C9_PartlyOutsideIsClamped ==
    (IsDraw(call) /\ PartlyOutside(current_orientation, call.arg))
        => /\ call.ret # ESP_ERR_INVALID_STATE
           /\ Len(call.events) >= 1
           /\ WindowsInPanel(call.events)

\* at 270 degrees, a rectangle reaching over all four edges was sent
C9_Witness ==
    /\ IsDraw(call)
    /\ call.ret = ESP_OK
    /\ current_orientation = DISPLAY_ORIENTATION_270
    /\ PartlyOutside(current_orientation, call.arg)
    /\ call.arg[1] < 0 /\ call.arg[2] > LCD_V_RES - 1
    /\ call.arg[3] < 0 /\ call.arg[4] > LCD_H_RES - 1

\* C10, as claimed: for every rectangle with x_start <= x_end and
\* y_start <= y_end, also one wholly beyond an edge, and every orientation,
\* the 16-bit values of the window commands lie within the panel, start <= end.
C10_NeverWraps == IsDraw(call) => WindowsInPanel(call.events)

\* the logical rectangle whose window in orientation o has the columns cols
\* and the rows rows, each <<start, end>>: the panel's columns and rows read
\* back along the logical axes, a mirrored axis counted from its far edge
Unmap(o, cols, rows) ==
    LET Flip(pair, dimension) == << dimension - 1 - pair[2], dimension - 1 - pair[1] >>
    IN  CASE o = DISPLAY_ORIENTATION_0 -> << cols[1], cols[2], rows[1], rows[2] >>
          [] o = DISPLAY_ORIENTATION_90 -> << rows[1], rows[2], cols[1], cols[2] >>
          [] o = DISPLAY_ORIENTATION_180 ->
               Flip(cols, LCD_H_RES) \o Flip(rows, LCD_V_RES)
          [] o = DISPLAY_ORIENTATION_270 ->
               Flip(rows, LCD_V_RES) \o Flip(cols, LCD_H_RES)

\* C11: in each of the four orientations, for a rectangle inside the logical
\* surface, the columns and rows that set_draw_area sends, mapped back
\* through the same orientation, are the rectangle it was called with; so
\* two different rectangles inside the surface never get the same window.
C11_RoundTrip ==
    (IsDraw(call) /\ Inside(current_orientation, call.arg) /\ Len(call.events) >= 2)
        => Unmap(current_orientation, Sent(call.events[1]), Sent(call.events[2]))
             = call.arg

\* at 270 degrees, a rectangle inside the surface that touches no far edge
\* was sent
C11_Witness ==
    /\ IsDraw(call)
    /\ call.ret = ESP_OK
    /\ current_orientation = DISPLAY_ORIENTATION_270
    /\ call.arg = <<0, Inner, Inner, Inner>>
    /\ Sent(call.events[1]) # Sent(call.events[2])

\* the second of two consecutive successful set_display_orientation calls
\* with the same argument
OrientedTwice(c1, c2) ==
    /\ IsOrient(c1) /\ c1.ret = ESP_OK
    /\ IsOrient(c2) /\ c2.ret = ESP_OK
    /\ c2.arg = c1.arg

\* C12: after a second successful set_display_orientation(o) that follows a
\* successful set_display_orientation(o), set_draw_area produces for every
\* rectangle the window it produced after the first, whatever the
\* orientation was before the first.
C12_TwiceAsOnce ==
    [][OrientedTwice(call, call')
         => \A r \in Rects(DrawCoords) :
                set_draw_area(current_orientation', r, 0)
                  = set_draw_area(current_orientation, r, 0)]_vars

\* set_display_orientation(180 degrees) succeeded twice in a row, the first
\* time from 90 degrees
C12_Witness ==
    /\ IsOrient(call)
    /\ call.ret = ESP_OK
    /\ call.arg = <<DISPLAY_ORIENTATION_180>>
    /\ hist.retried
    /\ hist.fresh = <<DISPLAY_ORIENTATION_90>>

\* the logical surface of orientation o as <<width, height>>
Surface(o) == << SurfaceW(o), SurfaceH(o) >>

\* the resolution a set_display_orientation(o) hands to the LVGL driver
ResolvedAs(ev, size) == \A i \in At(ev, "disp_drv") : ev[i].a = size

\* the surface a clear_screen fills: the bytes it allocates, the rectangle it
\* opens and the bitmap it sends
ClearedAs(ev, size) ==
    /\ \A i \in At(ev, "heap_caps_malloc") : ev[i].a = << size[1] * size[2] * 2 >>
    /\ \A i \in At(ev, "set_draw_area") :
            ev[i].a = << 0, size[1] - 1, 0, size[2] - 1 >>
    /\ \A i \in At(ev, "draw_bitmap") :
            ev[i].a[3] = size[1] /\ ev[i].a[4] = size[2]

\* the ends that the clamp of a flush leaves for an area reaching beyond
\* both far edges of every surface, read back from the window it sent
ClampedAs(c, o, size) ==
    (Len(c.events) >= 2 /\ c.events[2].op = "tx_param"
       /\ c.arg[2] > LCD_V_RES - 1 /\ c.arg[4] > LCD_V_RES - 1)
        => LET r == Unmap(o, Sent(c.events[1]), Sent(c.events[2]))
           IN  r[2] = size[1] - 1 /\ r[4] = size[2] - 1

\* C13: the width and height that set_display_orientation resolves are
\* 170 x 320 at 0 and 180 degrees and 320 x 170 at 90 and 270 degrees; the
\* surface clear_screen fills and the limits set_draw_area clamps to are
\* those of the current orientation.
C13_ResolutionAgrees ==
    /\ Surface(DISPLAY_ORIENTATION_0) = <<170, 320>>
    /\ Surface(DISPLAY_ORIENTATION_180) = <<170, 320>>
    /\ Surface(DISPLAY_ORIENTATION_90) = <<320, 170>>
    /\ Surface(DISPLAY_ORIENTATION_270) = <<320, 170>>
    /\ IsOrient(call)
         => /\ ResolvedAs(call.events, Surface(call.arg[1]))
            /\ ClearedAs(call.events, Surface(call.arg[1]))
            /\ Has(call.events, "heap_caps_malloc")
                 => current_orientation = call.arg[1]
    /\ call.op = "clear_screen" => ClearedAs(call.events, Surface(current_orientation))
    /\ call.op = "lvgl_flush_cb"
         => ClampedAs(call, current_orientation, Surface(current_orientation))

\* with the display registered, a set_display_orientation(270 degrees) that
\* resolved 320 x 170 and cleared this surface
C13_Witness ==
    /\ IsOrient(call)
    /\ call.arg = <<DISPLAY_ORIENTATION_270>>
    /\ call.ret = ESP_OK
    /\ \E i \in At(call.events, "disp_drv") : call.events[i].a = <<LCD_V_RES, LCD_H_RES>>
    /\ \E i \in At(call.events, "draw_bitmap") : call.events[i].a[3] = LCD_V_RES

\* the columns and rows of the window of the rectangle r at each orientation,
\* each <<start, end>>
Window0(r) == << <<r[1], r[2]>>, <<r[3], r[4]>> >>
Window90(r) == << <<r[3], r[4]>>, <<r[1], r[2]>> >>
Window180(r) == << <<169 - r[2], 169 - r[1]>>, <<319 - r[4], 319 - r[3]>> >>
Window270(r) == << <<169 - r[4], 169 - r[3]>>, <<319 - r[2], 319 - r[1]>> >>

\* the rectangle is its own mirror image in the portrait surface
Centred(r) == r[1] + r[2] = 169 /\ r[3] + r[4] = 319

\* C14: for a rectangle inside the logical surface, set_draw_area sends at
\* 0 degrees columns = x range and rows = y range, at 90 degrees columns =
\* y range and rows = x range, at 180 degrees columns (169 - x_end) ..
\* (169 - x_start) and rows (319 - y_end) .. (319 - y_start), at 270 degrees
\* columns (169 - y_end) .. (169 - y_start) and rows (319 - x_end) ..
\* (319 - x_start); a rectangle gets at 180 degrees the window it gets at
\* 0 degrees only when it is centred.
C14_WindowOfOrientation ==
    (IsDraw(call) /\ Inside(current_orientation, call.arg) /\ Len(call.events) >= 2)
        => LET sent == << Sent(call.events[1]), Sent(call.events[2]) >>
           IN  /\ current_orientation = DISPLAY_ORIENTATION_0 => sent = Window0(call.arg)
               /\ current_orientation = DISPLAY_ORIENTATION_90 => sent = Window90(call.arg)
               /\ current_orientation = DISPLAY_ORIENTATION_180 => sent = Window180(call.arg)
               /\ current_orientation = DISPLAY_ORIENTATION_270 => sent = Window270(call.arg)
               /\ current_orientation = DISPLAY_ORIENTATION_0
                    => (Centred(call.arg)
                          <=> set_draw_area(DISPLAY_ORIENTATION_180, call.arg, 0).ev
                                = set_draw_area(DISPLAY_ORIENTATION_0, call.arg, 0).ev)

\* at 180 degrees, a rectangle inside the surface that is not centred was sent
C14_Witness ==
    /\ IsDraw(call)
    /\ call.ret = ESP_OK
    /\ current_orientation = DISPLAY_ORIENTATION_180
    /\ call.arg = <<Inner, LCD_H_RES - 1, 0, Inner>>
    /\ Sent(call.events[1]) = <<0, LCD_H_RES - 1 - Inner>>

\* the tx_param entries of the command cmd in a trace
Commands(ev, cmd) == {i \in At(ev, "tx_param") : ev[i].a[1] = cmd}

\* the handler opened the whole logical surface of orientation o
OpenedSurface(ev, o) ==
    \E i \in At(ev, "set_draw_area") :
        ev[i].a = << 0, SurfaceW(o) - 1, 0, SurfaceH(o) - 1 >>

\* C15: in each of the four orientations, the rectangle
\* (0, width - 1, 0, height - 1) of the whole logical surface is sent as the
\* whole panel: columns 0 .. 169, rows 0 .. 319.
C15_SurfaceIsPanel ==
    OpenedSurface(call.events, current_orientation)
        => /\ Commands(call.events, CASET) # {}
           /\ \A i \in Commands(call.events, CASET) : Sent(call.events[i]) = <<0, 169>>
           /\ \A i \in Commands(call.events, RASET) : Sent(call.events[i]) = <<0, 319>>

\* a clear_screen at 270 degrees that sent both windows
C15_Witness ==
    /\ call.op = "clear_screen"
    /\ current_orientation = DISPLAY_ORIENTATION_270
    /\ OpenedSurface(call.events, current_orientation)
    /\ Commands(call.events, RASET) # {}
    /\ call.ret = ESP_OK

\* C16, as claimed: in every lvgl_flush_cb and every clear_screen, a
\* set_draw_area that returned ESP_OK and was followed by the bitmap is
\* followed by exactly one end of payload before the handler returns,
\* whether the bitmap was accepted or refused; when set_draw_area returned an
\* error, no end of payload is sent.
C16_OneEndPerStream ==
    (call.op \in {"lvgl_flush_cb", "clear_screen"})
        => /\ (BeginOk(call.events) /\ Has(call.events, "draw_bitmap"))
                => /\ Cardinality(At(call.events, "tx_color")) = 1
                   /\ \A i \in At(call.events, "tx_color"),
                         j \in At(call.events, "draw_bitmap") : j < i
           /\ BeginFailed(call.events) => ~Has(call.events, "tx_color")

\* the params of a command are bytes
Bytes(e) == \A k \in 2..Len(e.a) : e.a[k] \in 0..255

\* a window command carries the 16-bit values start and end, each high byte
\* first
Carries(e, start, end) ==
    /\ Len(e.a) = 5
    /\ Bytes(e)
    /\ e.a[2] * 256 + e.a[3] = start
    /\ e.a[4] * 256 + e.a[5] = end

\* the commands of a trace carry the window w
CarryWindow(ev, w) ==
    /\ \A j \in Commands(ev, 42) : Carries(ev[j], w.col_start, w.col_end)
    /\ \A j \in Commands(ev, 43) : Carries(ev[j], w.row_start, w.row_end)
    /\ \A j \in Commands(ev, 44) : Len(ev[j].a) = 1
    /\ \A j \in Commands(ev, 54) : Len(ev[j].a) = 2 /\ Bytes(ev[j])

\* C17: the column and the row command (0x2A, 0x2B) each carry four param
\* bytes, the high then the low byte of the start followed by the high then
\* the low byte of the end, which read big-endian are the 16-bit start and
\* end of the window of the rectangle; the memory write (0x2C) carries no
\* param; the only other command is MADCTL (0x36), with its one byte.
C17_BigEndianWindow ==
    /\ \A j \in At(call.events, "tx_param") : call.events[j].a[1] \in {42, 43, 44, 54}
    /\ (Commands(call.events, 42) \cup Commands(call.events, 43)) # {}
         => Has(call.events, "set_draw_area")
    /\ \A i \in At(call.events, "set_draw_area") :
           CarryWindow(call.events, draw_window(current_orientation, call.events[i].a))
    /\ Commands(call.events, 54) \subseteq {1}
    /\ (IsOrient(call) /\ call.events # <<>>) => Commands(call.events, 54) = {1}

\* a flush at 90 degrees whose row command carries 319 as 0x01, 0x3F
C17_Witness ==
    /\ call.op = "lvgl_flush_cb"
    /\ current_orientation = DISPLAY_ORIENTATION_90
    /\ \E j \in Commands(call.events, 43) :
          /\ call.events[j].a[2] = 0 /\ call.events[j].a[3] = Inner
          /\ call.events[j].a[4] = 1 /\ call.events[j].a[5] = 63

\* the buffers that the first k entries of a trace allocated / released
Allocated(ev, k) == Cardinality({i \in At(ev, "heap_caps_malloc") : i <= k /\ ev[i].ok})
Released(ev, k) == Cardinality({i \in At(ev, "free") : i <= k})

\* at every point of the trace at most one buffer is held and none was
\* released that was not held; at its end none is held
BuffersReleased(ev) ==
    /\ \A k \in 1..Len(ev) :
          /\ Released(ev, k) <= Allocated(ev, k)
          /\ Allocated(ev, k) <= Released(ev, k) + 1
    /\ Allocated(ev, Len(ev)) = Released(ev, Len(ev))

\* C18: when clear_screen returns, and when test_fill_screen returns, every
\* buffer the call allocated has been released, once: after a success, after
\* a failed set_draw_area and after a failed bitmap.
C18_BufferReleased ==
    (call.op \in {"clear_screen", "test_fill_screen"}) => BuffersReleased(call.events)

\* a test_fill_screen that took all three ways out of a clear_screen and whose
\* edge test ended at a failed set_draw_area
C18_Witness ==
    /\ call.op = "test_fill_screen"
    /\ Allocated(call.events, Len(call.events)) = 4
    /\ BeginFailed(call.events)
    /\ StreamFailed(call.events)
    /\ StreamOk(call.events)
    /\ call.events[Len(call.events)].op = "free"
    /\ call.events[Len(call.events) - 1].op = "set_draw_area"

\* the allocation of the call failed
AllocationFailed(ev) == \E i \in At(ev, "heap_caps_malloc") : ~ev[i].ok

\* C19: a clear_screen whose allocation fails returns ESP_ERR_NO_MEM, sends
\* no command, no bitmap and no end of payload, and leaves
\* current_orientation, the LVGL resolution and the panel as they were; the
\* clear_screen that ends set_display_orientation does nothing more either.
C19_NoMemoryNoEffect ==
    [][AllocationFailed(call'.events)
         => /\ call'.ret = ESP_ERR_NO_MEM
            /\ At(call'.events, "heap_caps_malloc") = {Len(call'.events)}
            /\ call'.op = "clear_screen"
                 => /\ Len(call'.events) = 1
                    /\ UNCHANGED <<current_orientation, lvgl_disp, disp_drv, panel>>]_vars

\* at 180 degrees, a clear_screen that found no memory
C19_Witness ==
    /\ call.op = "clear_screen"
    /\ AllocationFailed(call.events)
    /\ call.ret = ESP_ERR_NO_MEM
    /\ current_orientation = DISPLAY_ORIENTATION_180
    /\ lvgl_disp

\* the main task is between a set_draw_area that returned ESP_OK and the end
\* of the payload or the return of the handler
Drawing(c) == c.ret = "running" /\ BeginOk(c.events) /\ ~Has(c.events, "tx_color")

\* the step is a turn of lvgl_tick_task
Ticked == tasks'.sys_time # tasks.sys_time

\* the step of a handler that is in a draw: nothing, or the bitmap or the end
\* of the payload of this draw
StepOfDraw(c1, c2) ==
    /\ c2.op = c1.op
    /\ c2.arg = c1.arg
    /\ \/ c2.events = c1.events
       \/ /\ Len(c2.events) = Len(c1.events) + 1
          /\ SubSeq(c2.events, 1, Len(c1.events)) = c1.events
          /\ c2.events[Len(c2.events)].op \in {"draw_bitmap", "tx_color"}

\* C20: with the main task and lvgl_tick_task running in any interleaving,
\* (1) a turn of the tick task leaves current_orientation, the LVGL
\* resolution, the panel and the handler the main task is in as they are;
\* (2) between a set_draw_area that returned ESP_OK and the end of that draw
\* no other handler is entered, no window or orientation command is sent and
\* the orientation state is not written; (3) every handler returns what it
\* returns, and leaves what it leaves, when it runs alone.
C20_DrawsDoNotInterleave ==
    [][/\ Ticked
            => /\ UNCHANGED <<current_orientation, lvgl_disp, disp_drv, panel, call>>
               /\ tasks'.todo = tasks.todo
               /\ tasks'.ret = tasks.ret
       /\ Drawing(call)
            => /\ UNCHANGED <<current_orientation, lvgl_disp, disp_drv, panel>>
               /\ StepOfDraw(call, call')
       /\ (call.ret = "running" /\ call'.ret # "running")
            => /\ call' = [call EXCEPT !.ret = tasks.ret]
               /\ Sequencer' = tasks.after]_vars

\* the tick task ran after the bitmap of a flush and before the end of its
\* payload
C20_Witness ==
    /\ call.op = "lvgl_flush_cb"
    /\ Drawing(call)
    /\ call.events[Len(call.events)].op = "draw_bitmap"
    /\ tasks.sys_time > tasks.stamp
    /\ tasks.todo # <<>>

\* the one entry op of a trace is at position k
OnlyAt(ev, op, k) == At(ev, op) = {k}

\* C21: a set_display_orientation with one of the four enumerators in which
\* every call it makes succeeds sends MADCTL, then sets the gap, then stores
\* current_orientation and the resolution of the LVGL driver, then clears
\* the screen; the clear allocates, opens and sends the surface of the
\* requested orientation, not that of the orientation before; the call
\* returns ESP_OK with current_orientation the requested one.
C21_OrderOfSuccessfulOrient ==
    (IsOrient(call) /\ call.arg[1] \in Valid /\ AllAccepted(call.events))
        => /\ call.ret = ESP_OK
           /\ current_orientation = call.arg[1]
           /\ disp_drv = [hor_res |-> SurfaceW(call.arg[1]),
                          ver_res |-> SurfaceH(call.arg[1])]
           /\ Commands(call.events, MADCTL) = {1}
           /\ OnlyAt(call.events, "set_gap", 2)
           /\ OnlyAt(call.events, "current_orientation", 3)
           /\ call.events[3].a = call.arg
           /\ OnlyAt(call.events, "disp_drv", 4)
           /\ OnlyAt(call.events, "heap_caps_malloc", 6)
           /\ ClearedAs(call.events, Surface(call.arg[1]))
           /\ OpenedSurface(call.events, call.arg[1])
           /\ \A i \in At(call.events, "draw_bitmap") \cup At(call.events, "tx_color") :
                  i > 6
           /\ Has(call.events, "draw_bitmap")
           /\ call.events[Len(call.events)].op = "free"

\* a change from 90 degrees to 0 degrees in which every call succeeded
C21_Witness ==
    /\ IsOrient(call)
    /\ call.arg = <<DISPLAY_ORIENTATION_0>>
    /\ AllAccepted(call.events)
    /\ call.ret = ESP_OK
    /\ hist.fresh = <<DISPLAY_ORIENTATION_90>>
    /\ ~hist.retried
    /\ \E i \in At(call.events, "draw_bitmap") : call.events[i].a[3] = LCD_H_RES

\* the bitmap of a trace: the whole surface size, as many elements as the
\* surface has pixels, every one of them color
SendsFilled(ev, size, color) ==
    \A i \in At(ev, "draw_bitmap") :
        ev[i].a = << 0, 0, size[1], size[2], size[1] * size[2], color >>

\* C22: clear_screen(color) allocates width x height elements of the
\* surface of current_orientation, opens (0, width - 1, 0, height - 1),
\* sends the buffer, every element equal to color, only when set_draw_area
\* returned ESP_OK, and returns ESP_OK exactly when the allocation,
\* set_draw_area and the bitmap all succeeded.
C22_ClearFillsSurface ==
    (call.op = "clear_screen")
        => /\ OnlyAt(call.events, "heap_caps_malloc", 1)
           /\ ClearedAs(call.events, Surface(current_orientation))
           /\ SendsFilled(call.events, Surface(current_orientation), call.arg[1])
           /\ ~AllocationFailed(call.events)
                => OpenedSurface(call.events, current_orientation)
           /\ Has(call.events, "draw_bitmap") <=> BeginOk(call.events)
           /\ Cardinality(At(call.events, "draw_bitmap")) <= 1
           /\ call.ret = ESP_OK
                <=> (~AllocationFailed(call.events) /\ BeginOk(call.events)
                       /\ StreamOk(call.events))

\* a white clear at 90 degrees that sent its 54400 elements
C22_Witness ==
    /\ call.op = "clear_screen"
    /\ call.arg = <<65535>>
    /\ call.ret = ESP_OK
    /\ current_orientation = DISPLAY_ORIENTATION_90
    /\ \E i \in At(call.events, "draw_bitmap") :
          call.events[i].a[5] = LCD_H_RES * LCD_V_RES /\ call.events[i].a[6] = 65535

\* the rectangle <<x_start, x_end, y_start, y_end>> that a bitmap covers:
\* esp_lcd_panel_draw_bitmap takes x_start, y_start and the ends plus one
Streamed(e) == << e.a[1], e.a[3] - 1, e.a[2], e.a[4] - 1 >>

\* the pixels of a rectangle / of the window two commands carry
PixelsOf(r) == (r[2] - r[1] + 1) * (r[4] - r[3] + 1)
PixelsSent(caset, raset) ==
    (Sent(caset)[2] - Sent(caset)[1] + 1) * (Sent(raset)[2] - Sent(raset)[1] + 1)

\* C23, as claimed: when lvgl_flush_cb sends the bitmap of an area that lies
\* partly outside the surface, the rectangle of the bitmap is the clamped
\* rectangle that set_draw_area made the window of, and the bitmap has as
\* many pixels as the window.
C23_StreamsClampedRect ==
    (call.op = "lvgl_flush_cb" /\ PartlyOutside(current_orientation, call.arg))
        => \A i \in At(call.events, "draw_bitmap") :
              /\ Streamed(call.events[i]) = clamp_rect(current_orientation, call.arg)
              /\ PixelsOf(Streamed(call.events[i]))
                   = PixelsSent(call.events[1], call.events[2])

\* C24, as claimed: clear_screen and lvgl_flush_cb (and the set_draw_area and
\* the end of payload within them) leave current_orientation and the
\* resolution as they were, whether they succeed or fail; and
\* current_orientation is DISPLAY_ORIENTATION_90 from the start until a
\* set_display_orientation has returned ESP_OK.
C24_OnlyOrientWrites ==
    [][/\ (call'.op \in {"clear_screen", "lvgl_flush_cb"})
            => UNCHANGED <<current_orientation, disp_drv>>
       /\ ~hist'.oriented => current_orientation' = DISPLAY_ORIENTATION_90]_vars

\* the bit 0x20 (MV, the exchange of rows and columns) of a MADCTL value
ExchangeBit(v) == (v \div 32) % 2 = 1

\* width and height of the surface of o are those of the panel exchanged
Exchanged(o) == Surface(o) = << LCD_V_RES, LCD_H_RES >>

\* C25: set_display_orientation sets the gap (x_gap, y_gap) = (35, 0) at 0
\* and 180 degrees and (0, 35) at 90 and 270 degrees; the MADCTL value it
\* sends has the bit 0x20 set exactly at 90 and 270 degrees, which are the
\* orientations whose width and height are exchanged (so is the resolution
\* it hands to the LVGL driver); no two orientations share a MADCTL value.
C25_GapAndExchangeBit ==
    (IsOrient(call) /\ call.events # <<>>)
        => LET o == call.arg[1]
               madctl == call.events[1].a[2]
           IN  /\ \A i \in At(call.events, "set_gap") :
                      call.events[i].a
                        = IF o \in {DISPLAY_ORIENTATION_0, DISPLAY_ORIENTATION_180}
                          THEN <<35, 0>> ELSE <<0, 35>>
               /\ ExchangeBit(madctl)
                    <=> o \in {DISPLAY_ORIENTATION_90, DISPLAY_ORIENTATION_270}
               /\ ExchangeBit(madctl) <=> Exchanged(o)
               /\ \A i \in At(call.events, "disp_drv") :
                      ExchangeBit(madctl)
                        <=> call.events[i].a = << LCD_V_RES, LCD_H_RES >>
               /\ \A other \in Valid \ {o} : orientation_params(other).madctl # madctl

\* a change to 270 degrees that sent MADCTL 0xA8 and set the gap (0, 35)
C25_Witness ==
    /\ IsOrient(call)
    /\ call.arg = <<DISPLAY_ORIENTATION_270>>
    /\ Len(call.events) >= 2
    /\ call.events[1].a = <<MADCTL, 168>>
    /\ call.events[2].op = "set_gap"
    /\ call.events[2].ok
    /\ panel.y_gap = 35

\* C26: in every state the program reaches, whatever calls of
\* set_display_orientation (also with a value that is no enumerator),
\* clear_screen and lvgl_flush_cb were made and whichever of their commands
\* and allocations failed, current_orientation is one of the four
\* enumerators; no set_draw_area takes the default branch of its switch: none
\* returns ESP_ERR_INVALID_STATE, each sends at least the CASET command.
C26_OrientationAlwaysValid ==
    /\ current_orientation \in Valid
    /\ call.ret # ESP_ERR_INVALID_STATE
    /\ \A i \in At(call.events, "set_draw_area") :
           /\ i > 1
           /\ Commands(call.events, CASET) # {}

\* a flush at 270 degrees, an orientation that only failed calls have left,
\* whose set_draw_area returned ESP_OK
C26_Witness ==
    /\ call.op = "lvgl_flush_cb"
    /\ BeginOk(call.events)
    /\ current_orientation = DISPLAY_ORIENTATION_270
    /\ ~hist.oriented

\* C27: once init_lvgl has registered the display, in every state between
\* two calls the hor_res and ver_res of the LVGL driver are the width and
\* height of the surface of current_orientation, whichever
\* set_display_orientation calls succeeded or failed, the one of
\* init_display, made before the registration, included.
C27_DriverResolutionIsSurface ==
    lvgl_disp
        => disp_drv = [hor_res |-> SurfaceW(current_orientation),
                       ver_res |-> SurfaceH(current_orientation)]

\* with the display registered, a change to 180 degrees whose clear failed
\* after the stores
C27_Witness ==
    /\ lvgl_disp
    /\ IsOrient(call)
    /\ call.ret # ESP_OK
    /\ Has(call.events, "disp_drv")
    /\ current_orientation = DISPLAY_ORIENTATION_180
    /\ disp_drv.hor_res = LCD_H_RES

====
